---------------------------- MODULE Spec2Model ----------------------------
(***************************************************************************)
(* Model of src/index.js (Figma -> Range sync service).                    *)
(*                                                                         *)
(* Time is counted in minutes.  A moment is an integer; moment().isAfter   *)
(* is strict integer comparison.  Handles and table names are sequences of *)
(* one-character strings so that trim() and toLowerCase() are computed.    *)
(***************************************************************************)
EXTENDS Integers, Sequences, FiniteSets, TLC

(***************************************************************************)
(* Bounds of the model.                                                    *)
(***************************************************************************)
MaxCycles == 2            \* cycles that may be in flight at the same time
MaxTime == 2              \* the clock stops here
MaxHistory == 2           \* largest CONF.settings.initialImportHistoryMinutes
MaxProjects == 2          \* largest number of projects the team lists
MaxVersions == 3          \* longest version list given to the extractor
MaxStamp == 2             \* created_at and markers of the extractor inputs
MaxHandleLen == 3         \* longest handle given to getEmailFromHandle

(***************************************************************************)
(* Configuration values (conf.yaml) and literals of the source.            *)
(***************************************************************************)
PollingIntervalMinutes == 1
MarkerBackoffMinutes == 1
StatusOK == 200

Cycles == 1..MaxCycles
NoTime == -100            \* "no moment captured" (an idle slot)

(***************************************************************************)
(* State.                                                                  *)
(***************************************************************************)
VARIABLES
    now,              \* the wall clock, in minutes
    started,          \* lines 73-75 have run
    crashed,          \* the node process has exited
    nextFire,         \* when setInterval's timer fires next
    lastSyncedTime,   \* the marker (line 38)
    versionRequests,  \* the undeclared global of getFigmaVersionForFiles
    cyc,              \* the promise chain of each call of syncFigmaToRange
    extIn,            \* the input of a function of the pipeline run on its own
    extOut            \* what that function made of extIn

vars == <<now, started, crashed, nextFire, lastSyncedTime, versionRequests, cyc,
          extIn, extOut>>

(***************************************************************************)
(* Strings: String.prototype.trim and toLowerCase on character sequences.  *)
(***************************************************************************)
IsSpace(ch) == ch = " "

LowerChar(ch) ==
    CASE ch = "A" -> "a"
      [] ch = "B" -> "b"
      [] ch = "Z" -> "z"
      [] OTHER -> ch

ToLowerCase(s) == [i \in 1..Len(s) |-> LowerChar(s[i])]

RECURSIVE TrimLeft(_)
TrimLeft(s) ==
    IF s # <<>> /\ IsSpace(Head(s)) THEN TrimLeft(Tail(s)) ELSE s

RECURSIVE TrimRight(_)
TrimRight(s) ==
    IF s # <<>> /\ IsSpace(s[Len(s)])
    THEN TrimRight(SubSeq(s, 1, Len(s) - 1))
    ELSE s

Trim(s) == TrimRight(TrimLeft(s))

(***************************************************************************)
(* CONF.users: the identity table, in the key order of the file.           *)
(***************************************************************************)
Undefined == "undefined"

ConfUsers ==
    << [name |-> <<"a">>, email |-> "a@x"],
       [name |-> <<"B", " ">>, email |-> "b@x"] >>

RECURSIVE EmailFromUntrimmed(_, _, _)
EmailFromUntrimmed(table, i, handle) ==
    IF i > Len(table) THEN Undefined
    ELSE IF ToLowerCase(Trim(table[i].name)) = ToLowerCase(handle)
         THEN table[i].email
         ELSE EmailFromUntrimmed(table, i + 1, handle)

RECURSIVE EmailFrom(_, _, _)
EmailFrom(table, i, handle) ==
    IF i > Len(table) THEN Undefined
    ELSE IF ToLowerCase(Trim(table[i].name)) = ToLowerCase(Trim(handle))
         THEN table[i].email
         ELSE EmailFrom(table, i + 1, handle)

getEmailFromHandle(handle) == EmailFrom(ConfUsers, 1, handle)

(***************************************************************************)
(* moment(a).isAfter(b)                                                    *)
(***************************************************************************)
isAfter(a, b) == a > b

(***************************************************************************)
(* Map.prototype.set on a Map kept as the sequence of its entries in       *)
(* insertion order: an existing key keeps its position and takes the new   *)
(* value, a new key is appended.                                           *)
(***************************************************************************)
MapHas(m, id) == \E i \in 1..Len(m) : m[i].id = id

MapSetKeepFirst(m, id, handle) ==
    IF MapHas(m, id) THEN m
    ELSE Append(m, [id |-> id, handle |-> handle])

MapSet(m, id, handle) ==
    IF MapHas(m, id)
    THEN [i \in 1..Len(m) |->
            IF m[i].id = id THEN [id |-> id, handle |-> handle] ELSE m[i]]
    ELSE Append(m, [id |-> id, handle |-> handle])

(***************************************************************************)
(* addEditorsSince, lines 148-153: the walk over entry.versions that fills *)
(* editorsMap.  Indices are 0-based in the source, 1-based here.           *)
(***************************************************************************)
VersionSelectedNoFirst(versions, i, momentMarker) ==
    isAfter(versions[i].created_at, momentMarker)

VersionSelectedNotStrict(versions, i, momentMarker) ==
    (i = 1) \/ versions[i].created_at >= momentMarker

VersionSelected(versions, i, momentMarker) ==
    (i = 1) \/ isAfter(versions[i].created_at, momentMarker)

RECURSIVE WalkVersions(_, _, _, _)
WalkVersions(versions, i, momentMarker, editorsMap) ==
    IF i > Len(versions) THEN editorsMap
    ELSE WalkVersions(versions, i + 1, momentMarker,
            IF VersionSelected(versions, i, momentMarker)
            THEN MapSet(editorsMap, versions[i].user.id, versions[i].user.handle)
            ELSE editorsMap)

EditorsMap(versions, momentMarker) ==
    WalkVersions(versions, 1, momentMarker, <<>>)

(***************************************************************************)
(* addEditorsSince, lines 154-166: entry.editors from editorsMap.          *)
(***************************************************************************)
RECURSIVE EditorsOfKeepUnresolved(_, _)
EditorsOfKeepUnresolved(editorsMap, i) ==
    IF i > Len(editorsMap) THEN <<>>
    ELSE <<[name |-> editorsMap[i].handle,
            email |-> getEmailFromHandle(editorsMap[i].handle)]>>
           \o EditorsOfKeepUnresolved(editorsMap, i + 1)

RECURSIVE EditorsOf(_, _)
EditorsOf(editorsMap, i) ==
    IF i > Len(editorsMap) THEN <<>>
    ELSE LET handle == editorsMap[i].handle
             editorEmail == getEmailFromHandle(handle)
         IN  IF editorEmail = Undefined
             THEN EditorsOf(editorsMap, i + 1)
             ELSE <<[name |-> handle, email |-> editorEmail]>>
                    \o EditorsOf(editorsMap, i + 1)

addEditorsSince(entry, momentMarker) ==
    [file |-> entry.file,
     versions |-> entry.versions,
     editors |-> EditorsOf(EditorsMap(entry.versions, momentMarker), 1)]

(***************************************************************************)
(* createRangePayloads.  crypto sha1 is a fixed function of the exact      *)
(* email string; the digest is kept as the tagged input.                   *)
(***************************************************************************)
Sha1Hex(email) == <<"sha1", email>>

PayloadForStamped(entry, editor) ==
    [email_hash |-> Sha1Hex(editor.email),
     is_future |-> FALSE,
     reason |-> "EDITED",
     dedupe_strategy |-> "UPSERT_PENDING",
     created_at |-> now,
     attachment |->
        [source_id |-> entry.file.key,
         provider |-> "figma",
         provider_name |-> "Figma",
         html_url |-> <<"https://www.figma.com/file/", entry.file.key>>,
         name |-> entry.file.name,
         type |-> "DOCUMENT",
         subtype |-> "FIGMA_DOCUMENT"]]

PayloadFor(entry, editor) ==
    [email_hash |-> Sha1Hex(editor.email),
     is_future |-> FALSE,
     reason |-> "EDITED",
     dedupe_strategy |-> "UPSERT_PENDING",
     attachment |->
        [source_id |-> entry.file.key,
         provider |-> "figma",
         provider_name |-> "Figma",
         html_url |-> <<"https://www.figma.com/file/", entry.file.key>>,
         name |-> entry.file.name,
         type |-> "DOCUMENT",
         subtype |-> "FIGMA_DOCUMENT"]]

EntryPayloadsFirstEditor(entry) ==
    [j \in 1..(IF entry.editors = <<>> THEN 0 ELSE 1) |->
        PayloadFor(entry, entry.editors[j])]

EntryPayloads(entry) ==
    [j \in 1..Len(entry.editors) |-> PayloadFor(entry, entry.editors[j])]

RECURSIVE PayloadsFrom(_, _)
PayloadsFrom(entries, i) ==
    IF i > Len(entries) THEN <<>>
    ELSE EntryPayloads(entries[i]) \o PayloadsFrom(entries, i + 1)

createRangePayloads(entries) == PayloadsFrom(entries, 1)

(***************************************************************************)
(* getFigmaFilesForProjects, lines 93-101: the responses are flattened in  *)
(* the order of the requests.                                              *)
(***************************************************************************)
RECURSIVE FlattenFiles(_, _)
FlattenFiles(fileRequestResponses, i) ==
    IF i > Len(fileRequestResponses) THEN <<>>
    ELSE fileRequestResponses[i] \o FlattenFiles(fileRequestResponses, i + 1)

(***************************************************************************)
(* filterFigmaFilesToEditedAfter                                           *)
(***************************************************************************)
filterFigmaFilesToEditedSameOrAfter(figmaFiles, momentMarker) ==
    SelectSeq(figmaFiles, LAMBDA file : file.last_modified >= momentMarker)

filterFigmaFilesToEditedAfter(figmaFiles, momentMarker) ==
    SelectSeq(figmaFiles, LAMBDA file : isAfter(file.last_modified, momentMarker))

(***************************************************************************)
(* What the remote services may answer.                                    *)
(***************************************************************************)
\* a request of a batch: not answered yet, or fulfilled with a body
Pending == [st |-> "pending", data |-> <<>>]
Fulfilled(data) == [st |-> "ok", data |-> data]
Malformed == [st |-> "malformed", data |-> <<>>]   \* no data.versions in the body

\* a POST: not answered yet, or answered with a status
NoStatus == [st |-> "pending", status |-> 0]
Answered(status) == [st |-> "ok", status |-> status]

FileOf(key, t) == [key |-> key, name |-> <<"name of", key>>, last_modified |-> t]

\* GET /projects/{id}/files: no file, a file last modified at the start of
\* the service, or another one modified a minute later
RemoteFileListings ==
    { <<>>, <<FileOf("k1", 0)>>, <<FileOf("k2", 1)>> }

UserB == [id |-> 2, handle |-> <<"b">>]
UserZ == [id |-> 3, handle |-> <<"z">>]     \* not in CONF.users

VersionOf(t, user) == [created_at |-> t, user |-> user]

\* GET /files/{key}/versions
RemoteVersionLists ==
    { <<VersionOf(1, UserB)>>,
      <<VersionOf(1, UserZ), VersionOf(0, UserB)>> }

\* statuses the webhook may answer with
Statuses == {200, 204, 500}

\* axios' default validateStatus: the request promise is fulfilled for a
\* 2xx status and rejected for any other
ValidateStatus(status) == status >= 200 /\ status < 300

IdleCycle ==
    [pc |-> "idle", syncStartTime |-> NoTime,
     filterMarker |-> NoTime, editorsMarker |-> NoTime,
     fileResp |-> <<>>, recentFiles |-> <<>>, joined |-> <<>>, verResp |-> <<>>,
     payloads |-> <<>>, postResp |-> <<>>, failedAt |-> "none",
     files |-> <<>>, entries |-> <<>>]

InFlightPcs == {"projects", "files", "versions", "dispatch"}
InFlight(c) == cyc[c].pc \in InFlightPcs
Free(c) == ~InFlight(c)
Running == started /\ ~crashed

\* Promise.all over a batch is fulfilled once every member is
AllInAny(resp) == resp = <<>> \/ \E i \in 1..Len(resp) : resp[i].st # "pending"

AllIn(resp) == \A i \in 1..Len(resp) : resp[i].st # "pending"

\* line 215: Promise.all(rangeRequests)
DeliveriesJoinedFirst(resp) == \E i \in 1..Len(resp) : resp[i].st # "pending"

DeliveriesJoined(resp) == AllIn(resp)

(***************************************************************************)
(* The stages of the chain (lines 49-59) as functions of the chain's       *)
(* state; each runs to the next network wait or to the end of the chain.   *)
(* A value handed to the next stage is dropped from the state of the stage *)
(* that produced it, as the chain holds no other reference to it.  The     *)
(* fetched files and the entries stay on record until the chain ends.      *)
(***************************************************************************)
\* lines 60-69
Fail(r, stage) ==
    [r EXCEPT !.pc = "failed", !.failedAt = stage, !.fileResp = <<>>,
              !.recentFiles = <<>>, !.joined = <<>>, !.verResp = <<>>,
              !.payloads = <<>>, !.files = <<>>, !.entries = <<>>]

\* lines 56-59
Succeed(r) ==
    [r EXCEPT !.pc = "success", !.payloads = <<>>, !.files = <<>>, !.entries = <<>>]

\* lines 216-220: the rejected promise made inside forEach is returned to
\* forEach and dropped, so no status makes the chain reject
sendRangePayloadsRejects(responses) == FALSE

\* the dropped rejected promises of lines 217-219
DroppedRejections(responses) ==
    {i \in 1..Len(responses) : responses[i].status # StatusOK}

\* lines 215-223, once Promise.all(rangeRequests) is fulfilled
AfterDeliveries(r) ==
    IF sendRangePayloadsRejects(r.postResp)
    THEN Fail(r, "dispatch")
    ELSE Succeed(r)

\* lines 212-215
sendRangePayloadsRejectsNone(r, payloads) ==
    IF payloads = <<>> THEN Fail(r, "dispatch")
    ELSE [r EXCEPT !.pc = "dispatch", !.payloads = payloads,
                   !.postResp = [i \in 1..Len(payloads) |-> NoStatus]]

sendRangePayloads(r, payloads) ==
    LET r1 == [r EXCEPT !.pc = "dispatch", !.payloads = payloads,
                        !.postResp = [i \in 1..Len(payloads) |-> NoStatus]]
    IN  IF payloads = <<>> THEN AfterDeliveries(r1) ELSE r1

\* line 53: the argument of addEditorsSince was evaluated when the chain
\* was built
ExtractionMarkerLate(r) == lastSyncedTime

ExtractionMarker(r) == r.editorsMarker

\* lines 135-138, then addEditorsSince and createRangePayloads
AfterVersions(r) ==
    IF \E i \in 1..Len(r.verResp) : r.verResp[i] = Malformed
    THEN Fail(r, "editors")
    ELSE LET entries ==
               [i \in 1..Len(r.joined) |->
                  addEditorsSince([file |-> r.recentFiles[r.joined[i].idx],
                                   versions |-> r.verResp[i].data],
                                  ExtractionMarker(r))]
         IN  sendRangePayloads(
                [r EXCEPT !.recentFiles = <<>>, !.joined = <<>>, !.verResp = <<>>,
                          !.entries = entries],
                createRangePayloads(entries))

\* lines 124-134: the promises pushed to the global versionRequests; the
\* promise of (cycle c, idx i) resolves to {file: files[i], versions}
VersionPromises(c, files) == [i \in 1..Len(files) |-> [cycle |-> c, idx |-> i]]

\* line 135: Promise.all reads the global before the function returns, so
\* the chain joins the promises the global holds at that moment, which are
\* the ones lines 124-134 have just put there
JoinedPromisesStale(c, files) ==
    [i \in 1..Len(files) |->
        IF i <= Len(versionRequests) THEN versionRequests[i]
        ELSE [cycle |-> c, idx |-> i]]

JoinedPromises(c, files) == VersionPromises(c, files)

getFigmaVersionForFiles(c, r, files) ==
    LET r1 == [r EXCEPT !.pc = "versions", !.recentFiles = files,
                        !.joined = JoinedPromises(c, files),
                        !.verResp = [i \in 1..Len(files) |-> Pending]]
    IN  IF files = <<>> THEN AfterVersions(r1) ELSE r1

\* lines 93-101, then the filter of line 51
AfterFileListings(c, r) ==
    LET files == FlattenFiles([p \in 1..Len(r.fileResp) |-> r.fileResp[p].data], 1)
        recentFiles == filterFigmaFilesToEditedAfter(files, r.filterMarker)
    IN  getFigmaVersionForFiles(c, [r EXCEPT !.fileResp = <<>>, !.files = files],
                                recentFiles)

\* lines 90-93
getFigmaFilesForProjects(c, r, figmaProjects) ==
    LET r1 == [r EXCEPT !.pc = "files",
                        !.fileResp = [i \in 1..Len(figmaProjects) |-> Pending]]
    IN  IF figmaProjects = <<>> THEN AfterFileListings(c, r1) ELSE r1

\* the step ran getFigmaVersionForFiles
RanVersionFetch(old, new) ==
    /\ old.pc \in {"projects", "files"}
    /\ new.pc \in {"versions", "dispatch", "success"}

\* line 58
MarkerAfterSuccessNow(r, t) == t - MarkerBackoffMinutes

MarkerAfterSuccess(r, t) == r.syncStartTime - MarkerBackoffMinutes

\* one turn of the event loop for chain c, ending with the chain in `new`
Continue(c, new, crash) ==
    /\ cyc' = [cyc EXCEPT ![c] = new]
    /\ lastSyncedTime' =
          IF new.pc = "success" THEN MarkerAfterSuccess(new, now) ELSE lastSyncedTime
    /\ versionRequests' =
          IF RanVersionFetch(cyc[c], new)
          THEN VersionPromises(c, new.recentFiles)
          ELSE versionRequests
    /\ crashed' = crash
    /\ UNCHANGED <<now, started, nextFire, extIn, extOut>>

(***************************************************************************)
(* addEditorsSince on its own: any marker, any version list.               *)
(***************************************************************************)
ExtractUsers ==
    { [id |-> 1, handle |-> <<"A">>],
      [id |-> 1, handle |-> <<"a", " ">>],
      [id |-> 2, handle |-> <<"b">>],
      [id |-> 3, handle |-> <<"z">>] }

ExtractVersions ==
    {VersionOf(t, u) : t \in 0..MaxStamp, u \in ExtractUsers}

ExtractVersionLists ==
    UNION {[1..n -> ExtractVersions] : n \in 0..MaxVersions}

NoInput == [marker |-> NoTime, versions |-> <<>>]
NoOutput == [done |-> FALSE, editorsMap |-> <<>>, editors |-> <<>>]

InitExtract ==
    /\ now = 0
    /\ started = FALSE
    /\ crashed = FALSE
    /\ nextFire = NoTime
    /\ lastSyncedTime = 0
    /\ versionRequests = <<>>
    /\ cyc = [c \in Cycles |-> IdleCycle]
    /\ extIn \in [marker : 0..MaxStamp, versions : ExtractVersionLists]
    /\ extOut = NoOutput

\* the function returned by addEditorsSince(marker) runs on one entry
RunExtractor ==
    /\ ~extOut.done
    /\ LET entry == addEditorsSince(
                       [file |-> FileOf("k1", 0), versions |-> extIn.versions],
                       extIn.marker)
       IN  extOut' = [done |-> TRUE,
                      editorsMap |-> EditorsMap(extIn.versions, extIn.marker),
                      editors |-> entry.editors]
    /\ UNCHANGED <<now, started, crashed, nextFire, lastSyncedTime,
                   versionRequests, cyc, extIn>>

NextExtract == RunExtractor

SpecExtract == InitExtract /\ [][NextExtract]_vars

(***************************************************************************)
(* Initial state: the module has run up to line 41.                        *)
(***************************************************************************)
Init ==
    /\ now = 0
    /\ started = FALSE
    /\ crashed = FALSE
    /\ nextFire = NoTime
    /\ \E initialImportHistoryMinutes \in 0..MaxHistory :
          lastSyncedTime = now - initialImportHistoryMinutes
    /\ versionRequests = <<>>
    /\ cyc = [c \in Cycles |-> IdleCycle]
    /\ extIn = NoInput
    /\ extOut = NoOutput

(***************************************************************************)
(* syncFigmaToRange, lines 45-55: the synchronous part of a call.  Both    *)
(* uses of lastSyncedTime (lines 51 and 53) are evaluated here.            *)
(***************************************************************************)
EnterCycle(c) ==
    cyc' = [cyc EXCEPT ![c] =
              [IdleCycle EXCEPT !.pc = "projects",
                                !.syncStartTime = now,
                                !.filterMarker = lastSyncedTime,
                                !.editorsMarker = lastSyncedTime]]

LeastFree(c) == Free(c) /\ \A d \in Cycles : d < c => ~Free(d)

\* lines 73-75
Startup ==
    /\ ~started
    /\ started' = TRUE
    /\ EnterCycle(1)
    /\ nextFire' = now + PollingIntervalMinutes
    /\ UNCHANGED <<now, crashed, lastSyncedTime, versionRequests, extIn, extOut>>

\* the timer of line 75 fires
IntervalFires(c) ==
    /\ Running
    /\ now = nextFire
    /\ LeastFree(c)
    /\ EnterCycle(c)
    /\ nextFire' = now + PollingIntervalMinutes
    /\ UNCHANGED <<now, started, crashed, lastSyncedTime, versionRequests,
                   extIn, extOut>>

\* a minute passes
Tick ==
    /\ Running
    /\ now < MaxTime
    /\ now < nextFire
    /\ now' = now + 1
    /\ UNCHANGED <<started, crashed, nextFire, lastSyncedTime, versionRequests, cyc,
                   extIn, extOut>>

(***************************************************************************)
(* Responses of the remote services and the catch of line 60.              *)
(***************************************************************************)
\* GET /teams/{id}/projects is answered (lines 80-83, then line 50)
ProjectsResponse(c) ==
    /\ Running
    /\ cyc[c].pc = "projects"
    /\ \E n \in 0..MaxProjects :
          Continue(c, getFigmaFilesForProjects(c, cyc[c], [i \in 1..n |-> i]), FALSE)

ProjectsFail(c) ==
    /\ Running
    /\ cyc[c].pc = "projects"
    /\ Continue(c, Fail(cyc[c], "projects"), FALSE)

\* GET /projects/{id}/files of project p is answered
FilesResponse(c, p) ==
    /\ Running
    /\ cyc[c].pc = "files"
    /\ p \in 1..Len(cyc[c].fileResp)
    /\ cyc[c].fileResp[p] = Pending
    /\ \E listing \in RemoteFileListings :
          LET r1 == [cyc[c] EXCEPT !.fileResp[p] = Fulfilled(listing)]
          IN  Continue(c, IF AllIn(r1.fileResp) THEN AfterFileListings(c, r1) ELSE r1,
                       FALSE)

\* one rejected request rejects Promise.all(fileRequests)
FilesFail(c, p) ==
    /\ Running
    /\ cyc[c].pc = "files"
    /\ p \in 1..Len(cyc[c].fileResp)
    /\ cyc[c].fileResp[p] = Pending
    /\ Continue(c, Fail(cyc[c], "files"), FALSE)

\* GET /files/{key}/versions of request i is answered
VersionsResponse(c, i) ==
    /\ Running
    /\ cyc[c].pc = "versions"
    /\ i \in 1..Len(cyc[c].verResp)
    /\ cyc[c].verResp[i] = Pending
    /\ \E answer \in {Fulfilled(v) : v \in RemoteVersionLists} \cup {Malformed} :
          LET r1 == [cyc[c] EXCEPT !.verResp[i] = answer]
          IN  Continue(c, IF AllIn(r1.verResp) THEN AfterVersions(r1) ELSE r1, FALSE)

VersionsFail(c, i) ==
    /\ Running
    /\ cyc[c].pc = "versions"
    /\ i \in 1..Len(cyc[c].verResp)
    /\ cyc[c].verResp[i] = Pending
    /\ Continue(c, Fail(cyc[c], "versions"), FALSE)

\* the POST of payload i is answered with a status.  When the last one is
\* in, lines 215-223 and 56-59 run; a rejected promise dropped at line 218
\* then either only warns or ends the process, depending on how node treats
\* unhandled rejections.
DeliveryResponse(c, i) ==
    /\ Running
    /\ cyc[c].pc = "dispatch"
    /\ i \in 1..Len(cyc[c].postResp)
    /\ cyc[c].postResp[i] = NoStatus
    /\ \E status \in Statuses :
          LET r1 == [cyc[c] EXCEPT !.postResp[i] = Answered(status)]
          IN  IF ~ValidateStatus(status)
              THEN Continue(c, Fail(r1, "dispatch"), FALSE)
              ELSE IF ~DeliveriesJoined(r1.postResp)
              THEN Continue(c, r1, FALSE)
              ELSE \E exits \in BOOLEAN :
                      /\ exits => DroppedRejections(r1.postResp) # {}
                      /\ Continue(c, AfterDeliveries(r1), exits)

\* no listing above holds more than one file, no version list more than
\* MaxVersions versions
MaxFiles == MaxProjects
MaxDeliveries == MaxFiles * MaxVersions

Next ==
    \/ Startup
    \/ Tick
    \/ \E c \in Cycles : IntervalFires(c)
    \/ \E c \in Cycles : ProjectsResponse(c)
    \/ \E c \in Cycles : ProjectsFail(c)
    \/ \E c \in Cycles, p \in 1..MaxProjects : FilesResponse(c, p)
    \/ \E c \in Cycles, p \in 1..MaxProjects : FilesFail(c, p)
    \/ \E c \in Cycles, i \in 1..MaxFiles : VersionsResponse(c, i)
    \/ \E c \in Cycles, i \in 1..MaxFiles : VersionsFail(c, i)
    \/ \E c \in Cycles, i \in 1..MaxDeliveries : DeliveryResponse(c, i)

Spec == Init /\ [][Next]_vars

(***************************************************************************)
(* Properties of the sync cycles (checked under Spec).                     *)
(***************************************************************************)
\* chain c ends with this step, at line 59 or in the catch of line 60
EndsHere(c, outcome) == InFlight(c) /\ cyc'[c].pc = outcome

\* C1: when a cycle fails at some stage, the marker after the cycle equals
\* the marker the cycle read at its entry.
C1_FailedCycleLeavesEntryMarker ==
    [][\A c \in Cycles :
          EndsHere(c, "failed") => lastSyncedTime' = cyc[c].filterMarker]_vars

\* C2: a cycle is reported successful (and writes the marker) only if every
\* delivery of the cycle was answered with status 200.
C2_SuccessOnlyIfAll200 ==
    \A c \in Cycles :
        cyc[c].pc = "success" =>
            \A i \in 1..Len(cyc[c].postResp) : cyc[c].postResp[i].status = 200

\* C3: the marker never decreases.
C3_MarkerNeverDecreases ==
    [][lastSyncedTime' >= lastSyncedTime]_vars

\* C4: at most one sync cycle is in flight at any time.
C4_AtMostOneCycleInFlight ==
    Cardinality({c \in Cycles : InFlight(c)}) <= 1

\* C5: a cycle that captured start time T at entry and succeeds sets the
\* marker to exactly T - 1 minute, however long it took and whatever the
\* other cycles did meanwhile.
C5_MarkerIsStartMinusOne ==
    [][\A c \in Cycles :
          EndsHere(c, "success") => lastSyncedTime' = cyc[c].syncStartTime - 1]_vars

\* a cycle succeeded after time had passed and after a cycle that started
\* later had already succeeded
C5_Witness ==
    \E c, d \in Cycles :
        /\ cyc[c].pc = "success" /\ cyc[d].pc = "success"
        /\ cyc[c].syncStartTime < cyc[d].syncStartTime
        /\ now > cyc[c].syncStartTime
        /\ lastSyncedTime = cyc[c].syncStartTime - 1

C7_NoFailureEndsTheLoop ==
    (started /\ now = nextFire /\ \E c \in Cycles : Free(c))
        => ENABLED (\E c \in Cycles : IntervalFires(c))

(***************************************************************************)
(* Properties of addEditorsSince (checked under SpecExtract).              *)
(***************************************************************************)
\* version i of the input is one the extractor has to take: the first of
\* the list, or one created strictly after the marker
Taken(i) == i = 1 \/ extIn.versions[i].created_at > extIn.marker

AuthorId(i) == extIn.versions[i].user.id

CandidateIds == [k \in 1..Len(extOut.editorsMap) |-> extOut.editorsMap[k].id]

\* C8: the author of the first version of a non-empty list is always among
\* the candidates, also when that version is not after the marker.
C8_FirstAuthorAlwaysCandidate ==
    (extOut.done /\ extIn.versions # <<>>) =>
        \E k \in 1..Len(CandidateIds) : CandidateIds[k] = AuthorId(1)

\* the first version is at or before the marker, its author wrote no other
\* version, and is a candidate all the same
C8_Witness ==
    /\ extOut.done
    /\ Len(extIn.versions) >= 2
    /\ extIn.versions[1].created_at <= extIn.marker
    /\ \A i \in 2..Len(extIn.versions) : AuthorId(i) # AuthorId(1)
    /\ \E k \in 1..Len(CandidateIds) : CandidateIds[k] = AuthorId(1)

\* C9: no user id occurs twice among the candidates (so the editors hold at
\* most one element per candidate), and the handle kept for an id is the
\* handle of the last taken version of that id.
C9_OneCandidatePerIdLatestHandle ==
    extOut.done =>
        /\ \A k, l \in 1..Len(CandidateIds) :
              CandidateIds[k] = CandidateIds[l] => k = l
        /\ Len(extOut.editors) <= Len(CandidateIds)
        /\ \A k \in 1..Len(CandidateIds) :
              \E i \in 1..Len(extIn.versions) :
                  /\ Taken(i) /\ AuthorId(i) = CandidateIds[k]
                  /\ \A j \in (i + 1)..Len(extIn.versions) :
                        ~(Taken(j) /\ AuthorId(j) = CandidateIds[k])
                  /\ extOut.editorsMap[k].handle = extIn.versions[i].user.handle

\* one id wrote two taken versions under two handles; the later one is kept
C9_Witness ==
    /\ extOut.done
    /\ \E i, j \in 1..Len(extIn.versions) :
          /\ i < j /\ Taken(i) /\ Taken(j)
          /\ AuthorId(i) = AuthorId(j)
          /\ extIn.versions[i].user.handle # extIn.versions[j].user.handle
          /\ \A l \in (j + 1)..Len(extIn.versions) : AuthorId(l) # AuthorId(j)
          /\ \E k \in 1..Len(extOut.editorsMap) :
                extOut.editorsMap[k] = extIn.versions[j].user

\* the indices at which a taken version brings an id not seen in an earlier
\* taken version
FirstSeenAt(i) ==
    /\ Taken(i)
    /\ \A j \in 1..(i - 1) : Taken(j) => AuthorId(j) # AuthorId(i)

DiscoveryOrder ==
    LET indices == SelectSeq([i \in 1..Len(extIn.versions) |-> i],
                             LAMBDA i : FirstSeenAt(i))
    IN  [k \in 1..Len(indices) |-> AuthorId(indices[k])]

\* C10: the candidates are exactly the distinct ids of the taken versions,
\* in the order of their first discovery; a version after the first that is
\* not strictly after the marker adds nothing.
C10_CandidatesInDiscoveryOrder ==
    extOut.done => CandidateIds = DiscoveryOrder

\* [v0 by A, old; v1 by B, new; v2 by A, at the marker] gives [A, B], and
\* v2 does not change what v0 set
C10_Witness ==
    /\ extOut.done
    /\ extIn.marker = 1
    /\ extIn.versions =
          << VersionOf(0, [id |-> 1, handle |-> <<"A">>]),
             VersionOf(2, [id |-> 2, handle |-> <<"b">>]),
             VersionOf(1, [id |-> 1, handle |-> <<"a", " ">>]) >>
    /\ CandidateIds = <<1, 2>>
    /\ extOut.editorsMap[1].handle = <<"A">>

(***************************************************************************)
(* Properties of the data a cycle carries (checked under Spec).            *)
(***************************************************************************)
\* the handle is a key of CONF.users up to case and outer blanks
InTable(handle) ==
    \E k \in 1..Len(ConfUsers) :
        ToLowerCase(Trim(ConfUsers[k].name)) = ToLowerCase(Trim(handle))

\* the candidates of an entry that the identity table knows, in order
KnownCandidates(entry, momentMarker) ==
    SelectSeq(EditorsMap(entry.versions, momentMarker),
              LAMBDA u : InTable(u.handle))

\* the (entry, editor) pairs of a list of entries
EditorPairs(entries) ==
    UNION { {<<i, j>> : j \in 1..Len(entries[i].editors)} : i \in 1..Len(entries) }

\* chain c is delivering and one of its files has a candidate the table
\* does not know
DeliversDespiteUnknown(c) ==
    /\ cyc[c].pc = "dispatch"
    /\ \E i \in 1..Len(cyc[c].entries) :
          LET m == EditorsMap(cyc[c].entries[i].versions, cyc[c].editorsMarker)
          IN  \E k \in 1..Len(m) : ~InTable(m[k].handle)

\* what extraction and payload building leave in a chain that delivers
UnknownLeftOut(r) ==
    /\ \A i \in 1..Len(r.entries) :
          LET known == KnownCandidates(r.entries[i], r.editorsMarker)
              editors == r.entries[i].editors
          IN  /\ Len(editors) = Len(known)
              /\ \A j \in 1..Len(editors) :
                    /\ editors[j].name = known[j].handle
                    /\ editors[j].email # Undefined
    /\ Len(r.payloads) = Cardinality(EditorPairs(r.entries))
    /\ \A k \in 1..Len(r.payloads) : r.payloads[k].email_hash # Sha1Hex(Undefined)

\* C11: an editor whose handle matches no key of the identity table is left
\* out of the file's editors and of the payloads, and the cycle does not fail
\* for it: once every delivery is accepted the cycle ends as a success with
\* the marker at its start time less a minute, and it fails only on a
\* delivery that was refused.
C11_UnknownEditorLeftOutCycleGoesOn ==
    /\ [](\A c \in Cycles : cyc[c].pc = "dispatch" => UnknownLeftOut(cyc[c]))
    /\ [][\A c \in Cycles :
            (cyc[c].pc = "dispatch" /\ cyc'[c].pc # "dispatch"
                /\ DeliversDespiteUnknown(c)) =>
               /\ cyc'[c].pc \in {"success", "failed"}
               /\ cyc'[c].pc = "success" <=>
                     \A k \in 1..Len(cyc'[c].postResp) :
                         /\ cyc'[c].postResp[k].st = "ok"
                         /\ ValidateStatus(cyc'[c].postResp[k].status)
               /\ cyc'[c].pc = "success" =>
                     lastSyncedTime' = cyc[c].syncStartTime - MarkerBackoffMinutes
        ]_vars

\* a file whose candidates are one unknown and one known editor is being
\* delivered with the known editor's payload only, and the cycle can end
\* as a success
C11_Witness ==
    \E c \in Cycles :
        /\ DeliversDespiteUnknown(c)
        /\ Len(cyc[c].entries) = 1
        /\ Len(EditorsMap(cyc[c].entries[1].versions, cyc[c].editorsMarker)) = 2
        /\ Len(cyc[c].payloads) = 1
        /\ ENABLED (\E i \in 1..MaxDeliveries :
                       DeliveryResponse(c, i) /\ cyc'[c].pc = "success")

\* chains c and d read the same marker at entry and were given the same
\* files and, file by file, the same versions
SameRun(c, d) ==
    /\ cyc[c].pc = "dispatch"
    /\ cyc[d].pc = "dispatch"
    /\ cyc[c].filterMarker = cyc[d].filterMarker
    /\ cyc[c].editorsMarker = cyc[d].editorsMarker
    /\ cyc[c].files = cyc[d].files
    /\ Len(cyc[c].entries) = Len(cyc[d].entries)
    /\ \A i \in 1..Len(cyc[c].entries) :
          cyc[c].entries[i].versions = cyc[d].entries[i].versions

\* C14: two runs of the pipeline with the same marker, the same remote
\* files and versions and the same identity table build the same payloads,
\* whatever their start times and the time at which each built them.
C14_SameInputsSamePayloads ==
    \A c, d \in Cycles :
        SameRun(c, d) =>
            /\ cyc[c].entries = cyc[d].entries
            /\ cyc[c].payloads = cyc[d].payloads

\* two chains started a minute apart deliver the same payloads
C14_Witness ==
    \E c, d \in Cycles :
        /\ SameRun(c, d)
        /\ cyc[c].syncStartTime # cyc[d].syncStartTime
        /\ cyc[c].payloads # <<>>
        /\ cyc[c].payloads = cyc[d].payloads

\* all of the batch is fulfilled but one request, which is pending
LastOneOut(resp) ==
    /\ Cardinality({i \in 1..Len(resp) : resp[i].st = "pending"}) = 1
    /\ \A i \in 1..Len(resp) : resp[i].st \in {"pending", "ok"}

\* a read of the chain failed, or extraction threw
FailedBeforeDispatch(r) ==
    r.pc = "failed" /\ r.failedAt \in {"projects", "files", "versions", "editors"}

\* C15: the stages of a cycle run in sequence and each batch fails fast.
\* While projects or file listings are awaited no version read and no
\* delivery exists; while version reads are awaited no delivery exists.
\* Version reads are issued by the step that fulfils the last pending file
\* listing, all others being fulfilled; deliveries are issued by the step
\* that fulfils the last pending version read, all others being fulfilled.
\* A chain that failed at a read or in extraction has issued no delivery.
C15_StagesInSequenceBatchesFailFast ==
    /\ [](\A c \in Cycles :
            /\ cyc[c].pc \in {"projects", "files"} =>
                  cyc[c].joined = <<>> /\ cyc[c].verResp = <<>>
                     /\ cyc[c].postResp = <<>>
            /\ cyc[c].pc = "versions" => cyc[c].postResp = <<>>
            /\ FailedBeforeDispatch(cyc[c]) => cyc[c].postResp = <<>>)
    /\ [][\A c \in Cycles :
            /\ (cyc[c].pc # "versions" /\ cyc'[c].pc = "versions") =>
                  cyc[c].pc = "files" /\ LastOneOut(cyc[c].fileResp)
            /\ (cyc[c].pc # "dispatch" /\ cyc'[c].pc = "dispatch") =>
                  cyc[c].pc = "versions" /\ LastOneOut(cyc[c].verResp)
            /\ (InFlight(c) /\ cyc[c].pc # "dispatch" /\ cyc'[c].pc = "failed") =>
                  FailedBeforeDispatch(cyc'[c])
        ]_vars

\* one chain delivers for two files after two listings and two version
\* reads, another has failed at a version read with nothing delivered
C15_Witness ==
    \E c, d \in Cycles :
        /\ cyc[c].pc = "dispatch"
        /\ Len(cyc[c].files) = 2
        /\ Len(cyc[c].entries) = 2
        /\ cyc[d].pc = "failed"
        /\ cyc[d].failedAt = "versions"
        /\ cyc[d].postResp = <<>>

\* the files last modified strictly after the marker, in their order
StrictlyAfter(files, marker) ==
    SelectSeq(files, LAMBDA file : file.last_modified > marker)

\* C16: of the files a cycle fetched, exactly those last modified strictly
\* after the marker the cycle read at entry get a version read, one read
\* each, and an entry; a file modified at or before the marker gets neither,
\* and every payload is for a file strictly after the marker.
C16_OnlyFilesStrictlyAfterMarker ==
    \A c \in Cycles :
        LET r == cyc[c]
            recent == StrictlyAfter(r.files, r.filterMarker)
        IN  /\ r.pc = "versions" =>
                  /\ r.recentFiles = recent
                  /\ r.joined = [i \in 1..Len(recent) |-> [cycle |-> c, idx |-> i]]
                  /\ Len(r.verResp) = Len(recent)
            /\ r.pc = "dispatch" =>
                  /\ [i \in 1..Len(r.entries) |-> r.entries[i].file] = recent
                  /\ \A k \in 1..Len(r.payloads) :
                        \E i \in 1..Len(recent) :
                            recent[i].key = r.payloads[k].attachment.source_id

\* of two fetched files the one modified exactly at the marker is left out
\* and the other has its one version read pending
C16_Witness ==
    \E c \in Cycles :
        /\ cyc[c].pc = "versions"
        /\ Len(cyc[c].files) = 2
        /\ \E f \in 1..2 : cyc[c].files[f].last_modified = cyc[c].filterMarker
        /\ Len(cyc[c].recentFiles) = 1
        /\ cyc[c].verResp = <<Pending>>

\* C17: the filter and the extractor of a cycle use one marker value, the
\* one the marker held when the cycle was entered; it stays with the cycle
\* while the cycle is in flight, and the files that pass the filter and the
\* editors extracted are those of that value even after an overlapping
\* cycle has written the marker.
C17_OneEntryMarkerForFilterAndExtractor ==
    /\ [](\A c \in Cycles :
            LET r == cyc[c]
            IN  /\ InFlight(c) => r.filterMarker = r.editorsMarker
                /\ r.pc = "versions" =>
                      r.recentFiles = StrictlyAfter(r.files, r.filterMarker)
                /\ r.pc = "dispatch" =>
                      \A i \in 1..Len(r.entries) :
                          r.entries[i].editors =
                             EditorsOf(EditorsMap(r.entries[i].versions,
                                                  r.filterMarker), 1))
    /\ [][\A c \in Cycles :
            /\ (Free(c) /\ cyc'[c].pc = "projects") =>
                  /\ cyc'[c].filterMarker = lastSyncedTime
                  /\ cyc'[c].editorsMarker = lastSyncedTime
            /\ (InFlight(c) /\ cyc'[c].pc \in InFlightPcs) =>
                  /\ cyc'[c].filterMarker = cyc[c].filterMarker
                  /\ cyc'[c].editorsMarker = cyc[c].editorsMarker
        ]_vars

\* a chain delivers what it extracted with its entry marker after another
\* chain moved the marker to a value that would have left an editor out
C17_Witness ==
    \E c \in Cycles :
        /\ cyc[c].pc = "dispatch"
        /\ lastSyncedTime # cyc[c].editorsMarker
        /\ \E i \in 1..Len(cyc[c].entries) :
              cyc[c].entries[i].editors #
                 EditorsOf(EditorsMap(cyc[c].entries[i].versions, lastSyncedTime), 1)

\* C18: whatever another chain does to the global versionRequests, the
\* promises a chain joins are its own, one for each of its filtered files in
\* order, and the entries it hands to extraction are those files, each with
\* the versions answered to its own read.
C18_ChainJoinsItsOwnVersionReads ==
    /\ [](\A c \in Cycles :
            LET r == cyc[c]
            IN  /\ r.pc = "versions" =>
                      /\ r.joined =
                            [i \in 1..Len(r.recentFiles) |-> [cycle |-> c, idx |-> i]]
                      /\ Len(r.verResp) = Len(r.recentFiles)
                /\ r.pc = "dispatch" =>
                      [i \in 1..Len(r.entries) |-> r.entries[i].file] =
                         StrictlyAfter(r.files, r.filterMarker))
    /\ [][\A c \in Cycles :
            (cyc[c].pc = "versions" /\ cyc'[c].pc = "dispatch") =>
               /\ Len(cyc'[c].entries) = Len(cyc[c].recentFiles)
               /\ \A i \in 1..Len(cyc[c].recentFiles) :
                     /\ cyc'[c].entries[i].file = cyc[c].recentFiles[i]
                     /\ cyc[c].verResp[i].st = "ok" =>
                           cyc'[c].entries[i].versions = cyc[c].verResp[i].data
        ]_vars

\* two chains await version reads of two files each; the global holds the
\* promises of the one that ran getFigmaVersionForFiles last
C18_Witness ==
    \E c, d \in Cycles :
        /\ cyc[c].pc = "versions"
        /\ cyc[d].pc = "versions"
        /\ Len(cyc[c].joined) = 2
        /\ Len(cyc[d].joined) = 2
        /\ versionRequests = cyc[d].joined
        /\ versionRequests # cyc[c].joined

\* C19: a cycle whose projects and file listings are all answered ends in
\* that same step as a success, with no version read and no delivery issued
\* and the marker at its start time less a minute, unless some fetched file
\* was last modified strictly after its marker; only then does it go on to
\* version reads.  It fails in these stages only when a read fails.
C19_NothingRecentIsASuccess ==
    /\ [](\A c \in Cycles :
            cyc[c].pc = "versions" =>
               StrictlyAfter(cyc[c].files, cyc[c].filterMarker) # <<>>)
    /\ [][\A c \in Cycles :
            (cyc[c].pc \in {"projects", "files"}
                /\ cyc'[c].pc \notin {"projects", "files"}) =>
               \/ /\ cyc'[c].pc = "failed"
                  /\ cyc'[c].failedAt \in {"projects", "files"}
               \/ /\ cyc'[c].pc = "versions"
                  /\ cyc'[c].recentFiles # <<>>
               \/ /\ cyc'[c].pc = "success"
                  /\ cyc'[c].joined = <<>>
                  /\ cyc'[c].verResp = <<>>
                  /\ cyc'[c].postResp = <<>>
                  /\ versionRequests' = <<>>
                  /\ lastSyncedTime' = cyc[c].syncStartTime - MarkerBackoffMinutes
        ]_vars

\* the first cycle, alone, has ended as a success without a version read or
\* a delivery and the marker is its start time less a minute
C19_Witness ==
    /\ cyc[1].pc = "success"
    /\ \A d \in Cycles \ {1} : cyc[d].pc = "idle"
    /\ versionRequests = <<>>
    /\ cyc[1].postResp = <<>>
    /\ lastSyncedTime = cyc[1].syncStartTime - MarkerBackoffMinutes

(***************************************************************************)
(* getEmailFromHandle on its own: any handle, several identity tables.     *)
(***************************************************************************)
HandleChars == {"a", "A", "B", " ", "z"}

Handles == UNION {[1..n -> HandleChars] : n \in 0..MaxHandleLen}

\* CONF.users as configured, a table whose two keys differ only in case and
\* blanks, and an empty table
ResolveTables ==
    { ConfUsers,
      << [name |-> <<"A", " ">>, email |-> "a1@x"],
         [name |-> <<" ", "a">>, email |-> "a2@x"] >>,
      <<>> }

InitResolve ==
    /\ now = 0
    /\ started = FALSE
    /\ crashed = FALSE
    /\ nextFire = NoTime
    /\ lastSyncedTime = 0
    /\ versionRequests = <<>>
    /\ cyc = [c \in Cycles |-> IdleCycle]
    /\ extIn \in [table : ResolveTables, handle : Handles]
    /\ extOut = [done |-> FALSE, email |-> Undefined]

\* lines 172-179 run on one handle
RunResolver ==
    /\ ~extOut.done
    /\ extOut' = [done |-> TRUE, email |-> EmailFrom(extIn.table, 1, extIn.handle)]
    /\ UNCHANGED <<now, started, crashed, nextFire, lastSyncedTime,
                   versionRequests, cyc, extIn>>

NextResolve == RunResolver

SpecResolve == InitResolve /\ [][NextResolve]_vars

(***************************************************************************)
(* Properties of getEmailFromHandle (checked under SpecResolve).           *)
(***************************************************************************)
\* two characters that are one letter in either case, or the same character
SameLetter(x, y) ==
    x = y \/ {x, y} \in {{"a", "A"}, {"b", "B"}, {"z", "Z"}}

\* the positions of s that hold no blank
Inked(s) == {i \in 1..Len(s) : s[i] # " "}

\* s from its first to its last character that is no blank
Core(s) ==
    IF Inked(s) = {} THEN <<>>
    ELSE LET first == CHOOSE i \in Inked(s) : \A j \in Inked(s) : i <= j
             last == CHOOSE i \in Inked(s) : \A j \in Inked(s) : i >= j
         IN  [k \in 1..(last - first + 1) |-> s[first + k - 1]]

\* equal up to case and leading and trailing blanks
SameHandle(g, h) ==
    /\ Len(Core(g)) = Len(Core(h))
    /\ \A k \in 1..Len(Core(g)) : SameLetter(Core(g)[k], Core(h)[k])

\* C12: getEmailFromHandle does not tell apart two handles that are equal up
\* to case and leading and trailing blanks, and it returns an email only if
\* some key of the table equals the handle up to case and outer blanks (the
\* email of such a key).
C12_ResolutionIgnoresCaseAndOuterBlanks ==
    extOut.done =>
        /\ \A h \in Handles :
              SameHandle(extIn.handle, h) =>
                 EmailFrom(extIn.table, 1, h) = extOut.email
        /\ extOut.email # Undefined =>
              \E k \in 1..Len(extIn.table) :
                  /\ SameHandle(extIn.table[k].name, extIn.handle)
                  /\ extIn.table[k].email = extOut.email

\* the handle " A" resolved through the configured key "a"
C12_Witness ==
    /\ extOut.done
    /\ extIn.table = ConfUsers
    /\ extIn.handle = <<" ", "A">>
    /\ extOut.email = "a@x"

(***************************************************************************)
(* The pipeline of lines 50-54 on its own, the remote state fixed: any     *)
(* marker, any file listing per project (the same key may be listed by two *)
(* projects), one version list per file key.                               *)
(***************************************************************************)
FileKeys == {"k1", "k2"}

PipelineFileListings ==
    {<<>>} \cup {<<FileOf(key, t)>> : key \in FileKeys, t \in 0..MaxStamp}

UserA == [id |-> 1, handle |-> <<"A">>]
UserA4 == [id |-> 4, handle |-> <<" ", "a">>]    \* another user id, same email

PipelineVersionLists ==
    { <<>>,
      <<VersionOf(2, UserA)>>,
      <<VersionOf(2, UserZ)>>,
      <<VersionOf(2, UserZ), VersionOf(0, UserB)>>,
      <<VersionOf(2, UserA), VersionOf(2, UserA4)>>,
      <<VersionOf(2, UserB), VersionOf(1, UserA)>>,
      <<VersionOf(2, UserB), VersionOf(1, UserA), VersionOf(0, UserZ)>> }

NoPipelineOutput ==
    [done |-> FALSE, files |-> <<>>, recentFiles |-> <<>>, reads |-> <<>>,
     entries |-> <<>>, payloads |-> <<>>]

InitPipeline ==
    /\ now = 0
    /\ started = FALSE
    /\ crashed = FALSE
    /\ nextFire = NoTime
    /\ lastSyncedTime = 0
    /\ versionRequests = <<>>
    /\ cyc = [c \in Cycles |-> IdleCycle]
    /\ extIn \in [marker : 0..MaxStamp,
                  listings : [1..MaxProjects -> PipelineFileListings],
                  versions : [FileKeys -> PipelineVersionLists]]
    /\ extOut = NoPipelineOutput

\* lines 50-54 with every request answered from the fixed remote state
RunPipeline ==
    /\ ~extOut.done
    /\ LET files == FlattenFiles(extIn.listings, 1)
           recentFiles == filterFigmaFilesToEditedAfter(files, extIn.marker)
           reads == VersionPromises(1, recentFiles)
           entries ==
              [i \in 1..Len(reads) |->
                 addEditorsSince(
                    [file |-> recentFiles[reads[i].idx],
                     versions |-> extIn.versions[recentFiles[reads[i].idx].key]],
                    extIn.marker)]
       IN  extOut' = [done |-> TRUE, files |-> files, recentFiles |-> recentFiles,
                      reads |-> reads, entries |-> entries,
                      payloads |-> createRangePayloads(entries)]
    /\ UNCHANGED <<now, started, crashed, nextFire, lastSyncedTime,
                   versionRequests, cyc, extIn>>

NextPipeline == RunPipeline

SpecPipeline == InitPipeline /\ [][NextPipeline]_vars

(***************************************************************************)
(* Properties of the pipeline's data (checked under SpecPipeline).         *)
(***************************************************************************)
\* where the payload of editor j of entry i stands among the payloads
PairPosition(entries, i, j) ==
    Cardinality({p \in EditorPairs(entries) : p[1] < i}) + j

FetchedKeys == {extOut.files[f].key : f \in 1..Len(extOut.files)}

C20_OnePayloadPerFileAndEmail ==
    extOut.done =>
        \A j, k \in 1..Len(extOut.payloads) :
            (/\ extOut.payloads[j].attachment.source_id =
                   extOut.payloads[k].attachment.source_id
             /\ extOut.payloads[j].email_hash = extOut.payloads[k].email_hash)
            => j = k

=============================================================================
